---- MODULE Spec2Model ----
(***************************************************************************)
(* A model of gru: the catalog engine (catalog.Load, Catalog.Run, the      *)
(* module import graph and the resource dependency graph) and the etcd     *)
(* minion runtime (Serve, checkQueue, TaskListener, TaskRunner,            *)
(* processTask, periodicRunner).                                           *)
(*                                                                         *)
(* Four state machines share the module:                                   *)
(*   Spec / FairSpec  the minion runtime, without and with fairness        *)
(*   SpecRun          Catalog.Run over a loaded catalog                    *)
(*   SpecLoad         catalog.Load over a module path                      *)
(*   SpecKeys         the keys of the store that two minions write         *)
(***************************************************************************)
EXTENDS Integers, Sequences, FiniteSets, TLC

\* ---------------------------------------------------------------- bounds
\* Number of tasks the operator submits to the queue of the minion.
MaxWrites == 2
\* Longest catalog handed to Catalog.Run.
MaxRunRes == 2
\* Size of a module path handed to Load: the number of import declarations
\* plus the number of WantAfter / WantBefore entries in its modules.
MaxInput == 3

VARIABLES
    \* ---- Catalog (catalog.go)
    cModules,     \* Catalog.Modules: sequence of module names
    cResources,   \* Catalog.Resources: sequence of resource ids
    dryRun,       \* Config.DryRun
    \* ---- Catalog.Run
    runPc,        \* "idle" | "loop" | "done"
    runIdx,       \* position of the range loop over c.Resources
    calls,        \* every Resource method Run has called, in order
    w,            \* the lines Run has written to the Writer, in order
    runErr,       \* what Run returned: "none" (not yet) | "nil" | "error"
    evals         \* history: what Evaluate returned in each iteration so far,
                  \* and whether the life-state action and Update it called
                  \* failed

VARIABLES
    \* ---- the module path read by DiscoverAndLoad (input of Load)
    imports,      \* module name -> Module.Imports, the imported names in order
    decl,         \* module name -> Module.Resources, the resource ids in order
    wants,        \* the WantAfter / WantBefore entries of the resources
    \* ---- catalog.Load
    loadPc,       \* the statement Load is at
    g,            \* the graph being built or sorted: [nodes, edges]
    sorted,       \* modulesSorted / collectionSorted
    collection,   \* the ResourceMap: [ids, moduleMap]
    loadErr,      \* the error Load returns, NoError while there is none
    residue       \* the nodes Sort returned with ErrCircularDependency

VARIABLES
    \* ---- the etcd store and its clients
    queue,        \* the minion's queue directory: key -> value, NoValue if absent
    events,       \* the events under the queue directory that the watcher
                  \* of the listener has still to deliver, oldest first
    writes,       \* number of tasks the operator has submitted so far
    written,      \* history: the keys of the tasks submitted since Serve was
                  \* called
    logged,       \* the tasks written under the minion's log directory, in
                  \* order
    storeFailed,  \* history: some store operation of the minion has failed
    \* ---- Serve
    srvPc,        \* the statement Serve is at
    backlog,      \* checkQueue: the nodes of the backlog from the current one on
    quitBuf,      \* number of signals buffered in the quit channel (0 or 1)
    interrupted,  \* history: an interrupt has been delivered
    quitClosed,   \* close(quit) has run
    tasksClosed,  \* close(tasks) has run
    crashed,      \* a goroutine has panicked: the process is gone
    \* ---- periodicRunner
    perPc,        \* "off" | "on"
    \* ---- TaskListener
    lisPc,        \* "off" | "init" | "next" | "delete" | "send"
    lisNode,      \* the node of the event being handled
    \* ---- TaskRunner and processTask
    trPc,         \* "off" | "recv" | "run" | "save"
    trTask,       \* the task processed inline
    workers,      \* the processTask goroutines of concurrent tasks
    received,     \* history: the tasks the runner has taken from the task
                  \* channel, in order: [id, who sent it, whether the Delete
                  \* of its queue entry had been issued]
    started       \* the tasks whose command has been started, in order

VARIABLES
    \* ---- the keys of the store, as paths (sequences of path elements)
    keyspace,     \* the entries the operator has put under queue directories
    requests      \* history: the Set and Delete requests the minions have
                  \* issued: [minion, op, key]

keyVars == <<keyspace, requests>>
storeVars == <<queue, events, writes, written, logged,
               storeFailed>>
serveVars == <<srvPc, backlog, quitBuf, interrupted, quitClosed,
               tasksClosed, crashed>>
listenerVars == <<lisPc, lisNode>>
runnerVars == <<trPc, trTask, workers, received, started>>
minionVars == <<storeVars, serveVars, perPc, listenerVars, runnerVars>>
runVars == <<runPc, runIdx, calls, w, runErr, evals>>
catVars == <<cModules, cResources, dryRun>>
pathVars == <<imports, decl, wants>>
loadVars == <<loadPc, g, sorted, collection, loadErr, residue>>
catalogVars == <<catVars, runVars, pathVars, loadVars>>
vars == <<catVars, runVars, pathVars, loadVars, minionVars, keyVars>>

\* ------------------------------------------------------------- names
\* The modules of the module path, the main module, and a name that is in
\* no module path.
ModuleNames == {"a", "b", "main"}
Main == "main"
NotInPath == "x"

\* The resource ids declared in the module path, and an id nothing declares.
ResourceIDs == {"r1", "r2", "r3"}
NoResource == "rz"

\* Lexicographic order of the names above.
NameOrder == <<"a", "b", "main", "r1", "r2", "r3">>
Rank(n) == CHOOSE i \in 1..Len(NameOrder) : NameOrder[i] = n
Least(S) == CHOOSE n \in S : \A m \in S : Rank(n) <= Rank(m)

\* No minion has issued a request.
KeysIdle ==
    /\ keyspace = {}
    /\ requests = {}

\* Run has not been called.
RunIdle ==
    /\ runPc = "idle"
    /\ runIdx = 0
    /\ calls = <<>>
    /\ w = <<>>
    /\ runErr = "none"
    /\ evals = <<>>

\* ------------------------------------------------------------- minion values
\* The keys of the minion's queue directory, which are the task ids.
TaskKeys == {1, 2}

\* What a queue entry holds: JSON that does not unmarshal into a MinionTask,
\* or a task with IsConcurrent false or true.
NoValue == "none"
Malformed == "malformed"
Values == {Malformed, "serial", "concurrent"}

\* A node of the queue directory in the hands of checkQueue or of the
\* listener; deleted tells whether the Delete of its key has been issued.
Node(key, value) == [key |-> key, value |-> value, deleted |-> FALSE]

NoNode == Node(0, NoValue)

\* A MinionTask in the hands of the runner: TaskID, IsConcurrent, whether
\* TimeProcessed and Result have been set, whether Error is non-empty; job
\* is the position of the task among the tasks the runner has received and
\* exit is how its command ended ("none" while it has not).
Task(id, job, conc) ==
    [id |-> id, job |-> job, conc |-> conc, exit |-> "none",
     processed |-> FALSE, result |-> FALSE, err |-> FALSE]

NoTask == Task(0, 0, FALSE)

\* No minion has been constructed.
MinionIdle ==
    /\ queue = [k \in TaskKeys |-> NoValue]
    /\ events = <<>>
    /\ writes = 0
    /\ written = {}
    /\ logged = <<>>
    /\ storeFailed = FALSE
    /\ srvPc = "idle"
    /\ backlog = <<>>
    /\ quitBuf = 0
    /\ interrupted = FALSE
    /\ quitClosed = FALSE
    /\ tasksClosed = FALSE
    /\ crashed = FALSE
    /\ perPc = "off"
    /\ lisPc = "off"
    /\ lisNode = NoNode
    /\ trPc = "off"
    /\ trTask = NoTask
    /\ workers = {}
    /\ received = <<>>
    /\ started = <<>>

\* ------------------------------------------------------------ graph (spec 4.1)
NoError == [kind |-> "none", a |-> "-", b |-> "-", c |-> "-"]
Error(kind, a, b, c) == [kind |-> kind, a |-> a, b |-> b, c |-> c]

\* graph.New(): no nodes, no edges. An edge <<from, to>> reads "from depends
\* on to".
NewGraph == [nodes |-> {}, edges |-> {}]
AddNode(gr, n) == [gr EXCEPT !.nodes = @ \cup {n}]
AddEdge(gr, from, to) == [gr EXCEPT !.edges = @ \cup {<<from, to>>}]

\* The nodes of rest all of whose dependencies are already in the sequence.
Ready(gr, rest) ==
    {n \in rest : \A e \in gr.edges : e[1] = n => e[2] \notin rest}

\* Kahn's algorithm, the lexicographically least ready node first. The
\* result is the sorted nodes, or the residual nodes with the circular
\* dependency error.
RECURSIVE Kahn(_, _, _)
Kahn(gr, rest, out) ==
    IF rest = {} THEN [nodes |-> out, err |-> FALSE, residue |-> {}]
    ELSE LET ready == Ready(gr, rest) IN
         IF ready = {}
         THEN [nodes |-> <<>>, err |-> TRUE, residue |-> rest]
         ELSE LET n == Least(ready) IN Kahn(gr, rest \ {n}, Append(out, n))

Sort(gr) == Kahn(gr, gr.nodes, <<>>)

\* ------------------------------------------------------- module.ImportGraph
\* buildImportGraphFunc(m) on graph gr, and the loop over m.Imports from
\* import i on: [g, err]. The node is added once; the error of the nested
\* call on an imported module is dropped.
RECURSIVE BuildImportGraph(_, _)
RECURSIVE BuildImports(_, _, _)
BuildImportGraph(m, gr) ==
    IF m \in gr.nodes THEN [g |-> gr, err |-> NoError]
    ELSE BuildImports(m, 1, AddNode(gr, m))

BuildImports(m, i, gr) ==
    IF i > Len(imports[m]) THEN [g |-> gr, err |-> NoError]
    ELSE LET mi == imports[m][i] IN
         IF mi \notin ModuleNames
         THEN [g |-> gr, err |-> Error("import", m, mi, "-")]
         ELSE BuildImports(m, i + 1,
                           AddEdge(BuildImportGraph(mi, gr).g, m, mi))

ImportGraph(main) ==
    IF main \notin ModuleNames
    THEN [g |-> NewGraph, err |-> Error("nomain", main, "-", "-")]
    ELSE BuildImportGraph(main, NewGraph)

\* ------------------------------------------------ module.ResourceCollection
\* The loops over the modules and over each module's resources, from
\* resource j of module i on; col is the map built so far.
RECURSIVE CollectOverwrites(_, _, _, _)
\* A variant of Collect that lets a later declaration replace an earlier one.
CollectOverwrites(mods, i, j, col) ==
    IF i > Len(mods) THEN [col |-> col, err |-> NoError]
    ELSE IF j > Len(decl[mods[i]]) THEN CollectOverwrites(mods, i + 1, 1, col)
    ELSE LET id == decl[mods[i]][j] IN
         CollectOverwrites(mods, i, j + 1,
                           [ids |-> col.ids \cup {id},
                            moduleMap |-> [col.moduleMap EXCEPT ![id] = mods[i]]])

RECURSIVE Collect(_, _, _, _)
Collect(mods, i, j, col) ==
    IF i > Len(mods) THEN [col |-> col, err |-> NoError]
    ELSE IF j > Len(decl[mods[i]]) THEN Collect(mods, i + 1, 1, col)
    ELSE LET id == decl[mods[i]][j] IN
         IF id \in col.ids
         THEN [col |-> col,
               err |-> Error("duplicate", id, mods[i], col.moduleMap[id])]
         ELSE Collect(mods, i, j + 1,
                      [ids |-> col.ids \cup {id},
                       moduleMap |-> [col.moduleMap EXCEPT ![id] = mods[i]]])

EmptyCollection ==
    [ids |-> {}, moduleMap |-> [id \in ResourceIDs |-> "-"]]

ResourceCollection(mods) == Collect(mods, 1, 1, EmptyCollection)

\* ------------------------------------------- module.ResourceCollectionGraph
WantAfter(r) == {e.dep : e \in {x \in wants : x.r = r /\ x.kind = "after"}}
WantBefore(r) == {e.dep : e \in {x \in wants : x.r = r /\ x.kind = "before"}}

\* A variant of ResourceEdges that adds r -> dep for a WantBefore entry too.
ResourceEdgesBeforeAsAfter(r) ==
    {<<r, dep>> : dep \in WantAfter(r)} \cup {<<r, dep>> : dep \in WantBefore(r)}

\* The edges added for resource r: r -> dep for each WantAfter entry,
\* dep -> r for each WantBefore entry.
ResourceEdges(r) ==
    {<<r, dep>> : dep \in WantAfter(r)} \cup {<<dep, r>> : dep \in WantBefore(r)}

\* The entries of the collected resources whose target is not in the map.
MissingTargets(ids) == {e \in wants : e.r \in ids /\ e.dep \notin ids}

\* The graph over all the collected resources.
ResourceCollectionGraph(ids) ==
    [nodes |-> ids, edges |-> UNION {ResourceEdges(r) : r \in ids}]

\* ------------------------------------------------------------- catalog.Load
\* Load has not been called.
LoadIdle ==
    /\ imports = [m \in ModuleNames |-> <<>>]
    /\ decl = [m \in ModuleNames |-> <<>>]
    /\ wants = {}
    /\ loadPc = "idle"
    /\ g = NewGraph
    /\ sorted = <<>>
    /\ collection = EmptyCollection
    /\ loadErr = NoError
    /\ residue = {}

\* Load returns c and err.
Fail(err) ==
    /\ loadErr' = err
    /\ loadPc' = "done"

\* c is allocated empty and DiscoverAndLoad reads the module path.
LoadDiscover ==
    /\ loadPc = "start"
    /\ \E ok \in BOOLEAN :
         IF ok THEN loadPc' = "importGraph" /\ UNCHANGED loadErr
         ELSE Fail(Error("discover", "-", "-", "-"))
    /\ UNCHANGED <<catVars, runVars, minionVars, pathVars, g, sorted,
                   collection, residue, keyVars>>

\* modulesGraph, err := module.ImportGraph(config.Main, ...). ImportGraph
\* reads the same module path again.
LoadImportGraph ==
    /\ loadPc = "importGraph"
    /\ LET r == ImportGraph(Main) IN
       /\ g' = r.g
       /\ IF r.err = NoError THEN loadPc' = "sortModules" /\ UNCHANGED loadErr
          ELSE Fail(r.err)
    /\ UNCHANGED <<catVars, runVars, minionVars, pathVars, sorted, collection,
                   residue, keyVars>>

\* modulesSorted, err := modulesGraph.Sort(), then the loop that appends the
\* sorted modules to c.Modules.
LoadSortModules ==
    /\ loadPc = "sortModules"
    /\ LET r == Sort(g) IN
       /\ sorted' = r.nodes
       /\ residue' = r.residue
       /\ IF r.err
          THEN Fail(Error("circular", "-", "-", "-")) /\ UNCHANGED cModules
          ELSE /\ cModules' = cModules \o r.nodes
               /\ loadPc' = "collection"
               /\ UNCHANGED loadErr
    /\ UNCHANGED <<cResources, dryRun, runVars, minionVars, pathVars, g,
                   collection, keyVars>>

\* collection, err := module.ResourceCollection(c.Modules)
LoadCollection ==
    /\ loadPc = "collection"
    /\ LET r == ResourceCollection(cModules) IN
       /\ collection' = r.col
       /\ IF r.err = NoError THEN loadPc' = "dependencyGraph" /\ UNCHANGED loadErr
          ELSE Fail(r.err)
    /\ UNCHANGED <<catVars, runVars, minionVars, pathVars, g, sorted, residue,
                   keyVars>>

\* collectionGraph, err := collection.DependencyGraph(): a missing target
\* ends the range over the map, which visits the resources in any order.
LoadDependencyGraph ==
    /\ loadPc = "dependencyGraph"
    /\ LET missing == MissingTargets(collection.ids) IN
       IF missing = {}
       THEN /\ g' = ResourceCollectionGraph(collection.ids)
            /\ loadPc' = "sortResources"
            /\ UNCHANGED loadErr
       ELSE /\ \E e \in missing : Fail(Error("missing", e.r, e.dep, "-"))
            /\ UNCHANGED g
    /\ UNCHANGED <<catVars, runVars, minionVars, pathVars, sorted, collection,
                   residue, keyVars>>

\* collectionSorted, err := collectionGraph.Sort(), then the loop that
\* appends the sorted resources to c.Resources, and return c, nil.
LoadSortResources ==
    /\ loadPc = "sortResources"
    /\ LET r == Sort(g) IN
       /\ sorted' = r.nodes
       /\ residue' = r.residue
       /\ IF r.err
          THEN Fail(Error("circular", "-", "-", "-")) /\ UNCHANGED cResources
          ELSE /\ cResources' = cResources \o r.nodes
               /\ loadPc' = "done"
               /\ UNCHANGED loadErr
    /\ UNCHANGED <<cModules, dryRun, runVars, minionVars, pathVars, g,
                   collection, keyVars>>

\* ---- the module paths Load is run on
ImportTargets == ModuleNames \cup {NotInPath}
ImportDecls == ModuleNames \X ImportTargets

\* The import lists made by k import declarations ds, in file order.
ImportsOf(ds) ==
    [m \in ModuleNames |->
        LET mine == SelectSeq(ds, LAMBDA d : d[1] = m)
        IN [i \in 1..Len(mine) |-> mine[i][2]]]

WantEntries ==
    [r : ResourceIDs, kind : {"after", "before"},
     dep : ResourceIDs \cup {NoResource}]

\* The sets of at most n WantAfter / WantBefore entries.
WantSets(n) ==
    {{}} \cup {{f[i] : i \in 1..n} : f \in [1..n -> WantEntries]}

\* Which module declares which resources: one resource per module; r2
\* declared by both imported modules; r3 declared by main and by a.
DeclLayouts ==
    {[a |-> <<"r2">>, b |-> <<"r3">>, main |-> <<"r1">>],
     [a |-> <<"r2">>, b |-> <<"r2">>, main |-> <<"r1">>],
     [a |-> <<"r3">>, b |-> <<>>, main |-> <<"r1", "r2", "r3">>]}

LoadInit ==
    /\ \E k \in 0..MaxInput :
         /\ \E ds \in [1..k -> ImportDecls] : imports = ImportsOf(ds)
         /\ wants \in WantSets(MaxInput - k)
    /\ decl \in DeclLayouts
    /\ cModules = <<>>
    /\ cResources = <<>>
    /\ dryRun = FALSE
    /\ loadPc = "start"
    /\ g = NewGraph
    /\ sorted = <<>>
    /\ collection = EmptyCollection
    /\ loadErr = NoError
    /\ residue = {}
    /\ RunIdle
    /\ MinionIdle
    /\ KeysIdle

LoadNext ==
    \/ LoadDiscover
    \/ LoadImportGraph
    \/ LoadSortModules
    \/ LoadCollection
    \/ LoadDependencyGraph
    \/ LoadSortResources

SpecLoad == LoadInit /\ [][LoadNext]_vars

\* ------------------------------------------------- properties of catalog.Load
Range(f) == {f[i] : i \in DOMAIN f}

\* Load has returned without an error.
Loaded == loadPc = "done" /\ loadErr = NoError

\* The resources declared by the modules of c.Modules.
Collected == UNION {Range(decl[m]) : m \in Range(cModules)}

\* Position of resource r in c.Resources (0 when it is not there).
Index(r) ==
    IF r \in Range(cResources)
    THEN CHOOSE k \in 1..Len(cResources) : cResources[k] = r
    ELSE 0

\* C9: after a successful Load every collected resource is in c.Resources
\* exactly once, after every resource of its WantAfter and before every
\* resource of its WantBefore.
C9_ResourceOrdering ==
    Loaded =>
        /\ Range(cResources) = Collected
        /\ Len(cResources) = Cardinality(Collected)
        /\ \A e \in wants :
              e.r \in Collected =>
                 /\ Index(e.dep) > 0
                 /\ e.kind = "after" => Index(e.dep) < Index(e.r)
                 /\ e.kind = "before" => Index(e.r) < Index(e.dep)

\* Scenario S1 (r1 after r2, r2 after r3 gives r3, r2, r1), and a load
\* ordered by a WantBefore entry against the lexicographic order.
C9_Witness ==
    /\ Loaded
    /\ \/ /\ wants = {[r |-> "r1", kind |-> "after", dep |-> "r2"],
                      [r |-> "r2", kind |-> "after", dep |-> "r3"]}
          /\ cResources = <<"r3", "r2", "r1">>
       \/ /\ wants = {[r |-> "r3", kind |-> "before", dep |-> "r1"]}
          /\ cResources = <<"r2", "r3", "r1">>

\* The modules reachable from Main through imports.
RECURSIVE ImportClosure(_)
ImportClosure(S) ==
    LET n == S \cup {t \in ModuleNames : \E m \in S : t \in Range(imports[m])}
    IN IF n = S THEN S ELSE ImportClosure(n)

Reachable == ImportClosure({Main})

\* The imports <<M, X>> of reachable modules whose target is in no module path.
MissingImports ==
    {d \in ImportDecls : d[1] \in Reachable /\ d[2] \in Range(imports[d[1]])
                         /\ d[2] \notin ModuleNames}

\* C10: when a module reachable from Main imports a module that is not in
\* the module path, ImportGraph, and so Load, fails with an error naming both.
C10_MissingImportFails ==
    (/\ loadPc \notin {"start", "importGraph"}
     /\ loadErr.kind # "discover"
     /\ MissingImports # {})
    => /\ loadErr.kind = "import"
       /\ <<loadErr.a, loadErr.b>> \in MissingImports

\* Load has returned an error.
LoadFailed == loadPc = "done" /\ loadErr # NoError

\* C11: when Load fails, for a duplicate ResourceID or for any other reason,
\* the Catalog it hands back has no Modules and no Resources.
C11_NoPartialCatalog ==
    LoadFailed => (cModules = <<>> /\ cResources = <<>>)

\* The ids declared by two different modules of c.Modules.
DuplicateIDs ==
    {id \in ResourceIDs :
        \E m1, m2 \in Range(cModules) :
            m1 # m2 /\ id \in Range(decl[m1]) /\ id \in Range(decl[m2])}

\* ResourceCollection has returned.
CollectionDone == cModules # <<>> /\ loadPc # "collection"

\* C18: when two different modules of the sorted modules declare the same
\* ResourceID, ResourceCollection, and with it Load, fails with an error
\* that names the id and the two modules; when no id is declared twice the
\* map holds every resource of every sorted module.
C18_DuplicateResource ==
    CollectionDone =>
        IF DuplicateIDs # {}
        THEN /\ loadPc = "done"
             /\ loadErr.kind = "duplicate"
             /\ loadErr.a \in DuplicateIDs
             /\ loadErr.b # loadErr.c
             /\ \A m \in {loadErr.b, loadErr.c} :
                   m \in Range(cModules) /\ loadErr.a \in Range(decl[m])
        ELSE /\ loadErr.kind # "duplicate"
             /\ collection.ids = Collected
             /\ \A id \in Collected :
                   id \in Range(decl[collection.moduleMap[id]])

\* main imports a and b, which both declare r2: Load fails naming r2, b
\* and a.
C18_Witness ==
    /\ loadPc = "done"
    /\ cModules = <<"a", "b", "main">>
    /\ loadErr = Error("duplicate", "r2", "b", "a")

\* The nodes that the edges E lead to from the nodes of S, in any number of
\* steps.
RECURSIVE Descendants(_, _)
Descendants(E, S) ==
    LET n == S \cup {e[2] : e \in {x \in E : x[1] \in S}}
    IN IF n = S THEN S ELSE Descendants(E, n)

\* The nodes that lie on a cycle of E.
CycleNodes(E) ==
    {n \in {e[1] : e \in E} :
        n \in Descendants(E, {e[2] : e \in {x \in E : x[1] = n}})}

\* The imports declared by the modules reachable from Main, and the
\* dependencies declared by the collected resources.
DeclaredImports ==
    {d \in ModuleNames \X ModuleNames :
        d[1] \in Reachable /\ d[2] \in Range(imports[d[1]])}

DeclaredDependencies == UNION {ResourceEdges(r) : r \in Collected}

\* Load has got past the sort of the module graph (or failed in it), and
\* past the sort of the resource graph (or failed in it).
ModulesSortDone ==
    /\ loadPc \notin {"start", "importGraph", "sortModules"}
    /\ loadErr.kind \notin {"discover", "nomain", "import"}

ResourcesSortDone ==
    /\ loadPc = "done"
    /\ cModules # <<>>
    /\ loadErr.kind \notin {"duplicate", "missing"}

\* C17: when the imports reachable from Main contain a cycle, the sort of
\* the module graph makes Load fail with the circular-dependency error and a
\* residue that holds every module on a cycle; likewise for the resources
\* when their WantAfter / WantBefore declarations contain a cycle.
C17_CyclesDetected ==
    /\ (ModulesSortDone /\ CycleNodes(DeclaredImports) # {})
          => /\ loadErr.kind = "circular"
             /\ CycleNodes(DeclaredImports) \subseteq residue
    /\ (ResourcesSortDone /\ CycleNodes(DeclaredDependencies) # {})
          => /\ loadErr.kind = "circular"
             /\ CycleNodes(DeclaredDependencies) \subseteq residue

\* ------------------------------------------------- resource.State (spec 4.2)
StatePresent == "present"
StateAbsent == "absent"
StateRunning == "running"
StateStopped == "stopped"
StateUnknown == "unknown"

\* State.Want ranges over the four life states, State.Current over those
\* and unknown.
WantStates == {StatePresent, StateRunning, StateAbsent, StateStopped}
CurrentStates == WantStates \cup {StateUnknown}

\* What Evaluate() can return: an error, or a State.
EvalOutcomes ==
    {[err |-> TRUE, want |-> "-", current |-> "-", update |-> FALSE]}
    \cup [err : {FALSE}, want : WantStates, current : CurrentStates,
          update : BOOLEAN]

\* ------------------------------------------------------------ Catalog.Run
Line(id, kind, current, want) ==
    [id |-> id, kind |-> kind, current |-> current, want |-> want]

Call(id, op) == [id |-> id, op |-> op]

\* A variant of Transition whose present/running branch also creates a
\* resource whose Current is unknown.
TransitionCreatesOnUnknown(want, current) ==
    IF want = current THEN "none"
    ELSE IF want \in {StatePresent, StateRunning}
         THEN IF current \in {StateAbsent, StateStopped, StateUnknown}
              THEN "create" ELSE "none"
    ELSE IF want \in {StateAbsent, StateStopped}
         THEN IF current \in {StatePresent, StateRunning}
              THEN "delete" ELSE "none"
    ELSE "unknown"

\* The switch of Run over (Want, Current): the life-state action it selects.
\* "unknown" is the default branch, "none" is a branch that calls nothing.
Transition(want, current) ==
    IF want = current THEN "none"
    ELSE IF want \in {StatePresent, StateRunning}
         THEN IF current \in {StateAbsent, StateStopped}
              THEN "create" ELSE "none"
    ELSE IF want \in {StateAbsent, StateStopped}
         THEN IF current \in {StatePresent, StateRunning}
              THEN "delete" ELSE "none"
    ELSE "unknown"

\* A variant of AfterSwitch that leaves a resource alone once its life-state
\* action has failed.
AfterSwitchSkipsUpdateOnError(id, ev, resourceErr, updErr) ==
    [calls |-> IF ev.update /\ ~resourceErr
               THEN <<Call(id, "Update")>> ELSE <<>>,
     lines |-> (IF resourceErr THEN <<Line(id, "error", "-", "-")>> ELSE <<>>)
               \o (IF ev.update /\ ~resourceErr
                   THEN <<Line(id, "outofdate", "-", "-")>>
                        \o (IF updErr THEN <<Line(id, "error", "-", "-")>>
                            ELSE <<>>)
                   ELSE <<>>)]

\* A variant of AfterSwitch that updates every resource, out of date or not.
AfterSwitchAlwaysUpdates(id, ev, resourceErr, updErr) ==
    [calls |-> <<Call(id, "Update")>>,
     lines |-> (IF resourceErr THEN <<Line(id, "error", "-", "-")>> ELSE <<>>)
               \o <<Line(id, "outofdate", "-", "-")>>
               \o (IF updErr THEN <<Line(id, "error", "-", "-")>> ELSE <<>>)]

\* The part of the loop body after the switch: the resourceErr line and the
\* update of an out-of-date resource.
AfterSwitch(id, ev, resourceErr, updErr) ==
    [calls |-> IF ev.update THEN <<Call(id, "Update")>> ELSE <<>>,
     lines |-> (IF resourceErr THEN <<Line(id, "error", "-", "-")>> ELSE <<>>)
               \o (IF ev.update
                   THEN <<Line(id, "outofdate", "-", "-")>>
                        \o (IF updErr THEN <<Line(id, "error", "-", "-")>>
                            ELSE <<>>)
                   ELSE <<>>)]

\* A variant of DryRunSkip that never stops the body.
DryRunSkipNever(dry) == FALSE

\* The dry-run test of the loop body: TRUE when the body stops after Evaluate.
DryRunSkip(dry) == dry

\* One iteration of the loop of Run on resource id: the calls made after
\* Evaluate and the lines written, given what Evaluate returned (ev) and
\* whether the life-state action (actErr) and Update (updErr) fail.
LoopBody(id, ev, actErr, updErr) ==
    IF ev.err
    THEN [calls |-> <<>>, lines |-> <<Line(id, "error", "-", "-")>>]
    ELSE IF DryRunSkip(dryRun)
    THEN [calls |-> <<>>, lines |-> <<>>]
    ELSE LET t == Transition(ev.want, ev.current) IN
         IF t = "unknown"
         THEN [calls |-> <<>>,
               lines |-> <<Line(id, "unknown", ev.current, ev.want)>>]
         ELSE LET act == IF t = "create" THEN <<Call(id, "Create")>>
                         ELSE IF t = "delete" THEN <<Call(id, "Delete")>>
                         ELSE <<>>
                  rep == IF t \in {"create", "delete"}
                         THEN <<Line(id, "is", ev.current, ev.want)>>
                         ELSE <<>>
                  rest == AfterSwitch(id, ev, t # "none" /\ actErr, updErr)
              IN [calls |-> act \o rest.calls, lines |-> rep \o rest.lines]

\* Run is entered: the "Loaded %d resources from %d modules" line.
RunStart ==
    /\ runPc = "idle"
    /\ runPc' = "loop"
    /\ runIdx' = 1
    /\ w' = Append(w, Line(0, "loaded", Len(cResources), Len(cModules)))
    /\ UNCHANGED <<catVars, calls, runErr, evals, pathVars, loadVars,
                   minionVars, keyVars>>

\* A variant of EvalErrorEndsRun that returns the error of Evaluate.
EvalErrorAborts(ev) == ev.err

\* Whether the outcome of Evaluate ends the run with an error: in Run an
\* Evaluate error is written to the Writer and the loop continues.
EvalErrorEndsRun(ev) == FALSE

\* What a call of one of ops on id can return in this iteration: nil or an
\* error when the loop body makes the call, nothing to fail otherwise.
Failures(id, ev, ops) ==
    IF \E k \in 1..Len(LoopBody(id, ev, FALSE, FALSE).calls) :
           LoopBody(id, ev, FALSE, FALSE).calls[k].op \in ops
    THEN BOOLEAN ELSE {FALSE}

\* One iteration of "for _, r := range c.Resources"; after the last one the
\* range is exhausted and Run returns nil.
RunResource ==
    /\ runPc = "loop"
    /\ runIdx <= Len(cResources)
    /\ \E ev \in EvalOutcomes :
       \E actErr \in Failures(cResources[runIdx], ev, {"Create", "Delete"}),
          updErr \in Failures(cResources[runIdx], ev, {"Update"}) :
         LET id == cResources[runIdx]
             b == LoopBody(id, ev, actErr, updErr)
         IN /\ calls' = (calls \o <<Call(id, "Evaluate")>>) \o b.calls
            /\ w' = w \o b.lines
            /\ evals' = Append(evals,
                    [ev |-> ev, actErr |-> actErr, updErr |-> updErr])
            /\ IF EvalErrorEndsRun(ev)
               THEN runPc' = "done" /\ runErr' = "error"
               ELSE IF runIdx = Len(cResources)
               THEN runPc' = "done" /\ runErr' = "nil"
               ELSE UNCHANGED <<runPc, runErr>>
    /\ runIdx' = runIdx + 1
    /\ UNCHANGED <<catVars, pathVars, loadVars, minionVars, keyVars>>

\* The range of an empty catalog is exhausted at once: return nil.
RunReturn ==
    /\ runPc = "loop"
    /\ runIdx > Len(cResources)
    /\ runPc' = "done"
    /\ runErr' = "nil"
    /\ UNCHANGED <<catVars, runIdx, calls, w, evals, pathVars, loadVars,
                   minionVars, keyVars>>

\* A loaded catalog: n resources, named by their position in the sorted
\* order, from one module.
RunInit ==
    /\ \E n \in 0..MaxRunRes : cResources = [i \in 1..n |-> i]
    /\ cModules = <<Main>>
    /\ dryRun \in BOOLEAN
    /\ RunIdle
    /\ LoadIdle
    /\ MinionIdle
    /\ KeysIdle

RunNext == RunStart \/ RunResource \/ RunReturn

SpecRun == RunInit /\ [][RunNext]_vars

\* ------------------------------------------------- properties of Catalog.Run
\* Number of calls of method op on resource id so far.
Count(id, op) == Cardinality({k \in 1..Len(calls) : calls[k] = Call(id, op)})

\* Positions in calls of the calls of op on id.
Pos(id, op) == {k \in 1..Len(calls) : calls[k] = Call(id, op)}

\* Number of lines of the given shape written for id so far.
Lines(id, kind, current, want) ==
    Cardinality({k \in 1..Len(w) :
                    w[k].kind = kind /\ w[k] = Line(id, kind, current, want)})

\* The rows of the transition table of spec 4.4.
CreateRow(want, current) ==
    want \in {StatePresent, StateRunning}
    /\ current \in {StateAbsent, StateStopped}

DeleteRow(want, current) ==
    want \in {StateAbsent, StateStopped}
    /\ current \in {StatePresent, StateRunning}

\* Iterations so far in which Evaluate succeeded during a non-dry run.
Actuated == {i \in 1..Len(evals) : ~dryRun /\ ~evals[i].ev.err}

\* C4: in a non-dry run, for every resource whose Evaluate succeeded, Create
\* was called exactly when Want is present/running and Current is
\* absent/stopped, Delete exactly when Want is absent/stopped and Current is
\* present/running, neither when Want = Current, and never both.
C4_TransitionTable ==
    \A i \in Actuated :
        LET id == cResources[i]
            s == evals[i].ev
        IN /\ Count(id, "Create") = (IF CreateRow(s.want, s.current) THEN 1 ELSE 0)
           /\ Count(id, "Delete") = (IF DeleteRow(s.want, s.current) THEN 1 ELSE 0)
           /\ (s.want = s.current =>
                  Count(id, "Create") = 0 /\ Count(id, "Delete") = 0)
           /\ ~(Count(id, "Create") > 0 /\ Count(id, "Delete") > 0)

\* A finished non-dry run that created one resource and deleted another.
C4_Witness ==
    /\ runPc = "done" /\ ~dryRun
    /\ \E i, j \in Actuated :
          /\ CreateRow(evals[i].ev.want, evals[i].ev.current)
          /\ Count(cResources[i], "Create") = 1
          /\ DeleteRow(evals[j].ev.want, evals[j].ev.current)
          /\ Count(cResources[j], "Delete") = 1

\* A (Want, Current) pair that is none of the equal / create / delete rows;
\* it covers every pair whose Current is unknown.
UnexpectedPair(want, current) ==
    current = StateUnknown
    \/ (want # current /\ ~CreateRow(want, current) /\ ~DeleteRow(want, current))

\* C5: in a non-dry run, a resource whose Current is unknown or whose
\* (Want, Current) pair is no row of the table gets a report line and is
\* skipped: none of Create, Delete, Update is called for it.
C5_UnknownReportedAndSkipped ==
    \A i \in Actuated :
        LET id == cResources[i]
            s == evals[i].ev
        IN UnexpectedPair(s.want, s.current) =>
              /\ Lines(id, "unknown", s.current, s.want) = 1
              /\ Count(id, "Create") = 0
              /\ Count(id, "Delete") = 0
              /\ Count(id, "Update") = 0

\* C6: in a non-dry run, for every resource whose Evaluate succeeded with
\* State.Update true, Update was called exactly once, after the life-state
\* action if there was one, whether or not that action failed.
C6_UpdateRegardless ==
    \A i \in Actuated :
        LET id == cResources[i] IN
        evals[i].ev.update =>
            /\ Count(id, "Update") = 1
            /\ \A u \in Pos(id, "Update") :
                 \A a \in Pos(id, "Create") \cup Pos(id, "Delete") : a < u

\* An out-of-date resource whose Create failed and whose Update was called.
C6_Witness ==
    \E i \in Actuated :
        /\ evals[i].ev.update /\ evals[i].actErr
        /\ Count(cResources[i], "Create") = 1
        /\ Count(cResources[i], "Update") = 1

\* C7: a dry run of a catalog with one resource that is absent and should
\* be present writes exactly one "is absent, should be present" line and
\* calls no Create.
C7_DryRunReport ==
    (/\ runPc = "done" /\ dryRun
     /\ Len(cResources) = 1
     /\ ~evals[1].ev.err
     /\ evals[1].ev.want = StatePresent
     /\ evals[1].ev.current = StateAbsent)
    => /\ Lines(cResources[1], "is", StateAbsent, StatePresent) = 1
       /\ Count(cResources[1], "Create") = 0

\* The resources Evaluate has been called on, in call order.
Evaluated == SelectSeq(calls, LAMBDA c : c.op = "Evaluate")

\* C8: whatever Evaluate, Create, Delete and Update return, Run evaluates
\* every resource exactly once in catalog order and returns nil.
C8_ErrorsNeverAbort ==
    /\ Len(Evaluated) <= Len(cResources)
    /\ \A k \in 1..Len(Evaluated) : Evaluated[k].id = cResources[k]
    /\ runPc = "done" =>
          /\ runErr = "nil"
          /\ Len(Evaluated) = Len(cResources)

\* A finished run in which the first resource failed (its Evaluate, or its
\* Create) and the next one was still evaluated and created.
C8_Witness ==
    /\ runPc = "done" /\ ~dryRun /\ Len(cResources) >= 2
    /\ \/ evals[1].ev.err
       \/ (evals[1].actErr /\ Count(cResources[1], "Create") = 1)
    /\ Count(cResources[2], "Evaluate") = 1
    /\ Count(cResources[2], "Create") = 1

\* Evaluate succeeded and found the resource in its wanted state and up to
\* date.
Converged(s) == ~s.err /\ s.want = s.current /\ ~s.update

\* The calls made so far that change a resource.
Actuations == SelectSeq(calls, LAMBDA c : c.op \in {"Create", "Delete", "Update"})

\* C15: for a resource whose Evaluate returns Want = Current and Update
\* false, Run calls none of Create, Delete, Update; so a run over a system in
\* which every resource has converged makes no actuation call at all.
C15_Convergence ==
    /\ \A i \in 1..Len(evals) :
          Converged(evals[i].ev) =>
              /\ Count(cResources[i], "Create") = 0
              /\ Count(cResources[i], "Delete") = 0
              /\ Count(cResources[i], "Update") = 0
    /\ (\A i \in 1..Len(evals) : Converged(evals[i].ev)) => Actuations = <<>>

\* A finished non-dry run over two converged resources: both were evaluated
\* and nothing else was called.
C15_Witness ==
    /\ runPc = "done" /\ ~dryRun /\ Len(cResources) = 2
    /\ \A i \in 1..Len(evals) : Converged(evals[i].ev)
    /\ Len(calls) = 2
    /\ Actuations = <<>>

\* C16: in a dry run, whatever the catalog and whatever Evaluate returns,
\* Run calls none of Create, Delete, Update.
C16_DryRunSafety ==
    dryRun => Actuations = <<>>

\* A finished dry run in which Evaluate reported a resource to create and
\* update and a resource to delete, and only Evaluate was called.
C16_Witness ==
    /\ runPc = "done" /\ dryRun
    /\ \E i, j \in 1..Len(evals) :
          /\ ~evals[i].ev.err /\ evals[i].ev.update
          /\ CreateRow(evals[i].ev.want, evals[i].ev.current)
          /\ ~evals[j].ev.err
          /\ DeleteRow(evals[j].ev.want, evals[j].ev.current)
    /\ Len(calls) = Len(cResources)
    /\ Actuations = <<>>

\* =================================================================== minion
Alive == ~crashed

Event(action, key, value) == [action |-> action, key |-> key, value |-> value]

\* A variant of EtcdUnmarshalTask that reports no error for a value that
\* does not unmarshal.
EtcdUnmarshalTaskNoError(node) ==
    [err |-> node.value = NoValue,
     id |-> node.key,
     conc |-> node.value = "concurrent"]

\* EtcdUnmarshalTask(node): the task, and whether json.Unmarshal failed.
EtcdUnmarshalTask(node) ==
    [err |-> node.value \in {Malformed, NoValue},
     id |-> node.key,
     conc |-> node.value = "concurrent"]

\* The keys of S in the order of a sorted Get.
RECURSIVE SortKeys(_)
SortKeys(S) ==
    IF S = {} THEN <<>>
    ELSE LET k == CHOOSE x \in S : \A y \in S : x <= y
         IN <<k>> \o SortKeys(S \ {k})

\* resp.Node.Nodes of the recursive, sorted Get of the queue directory.
QueueNodes ==
    LET ks == SortKeys({k \in TaskKeys : queue[k] # NoValue})
    IN [i \in 1..Len(ks) |-> Node(ks[i], queue[ks[i]])]

\* The watcher of the listener is waiting at the store: from its first Next
\* on, every event under the queue directory is kept for it.
Watching == lisPc \in {"next", "delete", "send"}

Record(ev) == IF Watching THEN Append(events, ev) ELSE events

\* kapi.Delete(key): the key is removed and a delete event recorded, unless
\* the request fails (ok = FALSE) or the key is not there.
StoreDelete(key, ok) ==
    /\ storeFailed' = (storeFailed \/ ~ok)
    /\ IF ok /\ queue[key] # NoValue
       THEN /\ queue' = [queue EXCEPT ![key] = NoValue]
            /\ events' = Record(Event("delete", key, NoValue))
       ELSE UNCHANGED <<queue, events>>

\* ---- the operator and the operating system
\* The operator writes a task under the queue directory of the minion.
Submit ==
    /\ writes < MaxWrites
    /\ \E k \in TaskKeys, v \in Values :
         /\ queue' = [queue EXCEPT ![k] = v]
         /\ events' = Record(Event("set", k, v))
         /\ written' = IF srvPc # "start" /\ v # Malformed
                       THEN written \cup {k} ELSE written
    /\ writes' = writes + 1
    /\ UNCHANGED <<logged, storeFailed, serveVars, perPc, listenerVars,
                   runnerVars, catalogVars, keyVars>>

\* An interrupt is delivered once the handler is installed: signal.Notify
\* puts it in the buffer of the quit channel.
Interrupt ==
    /\ Alive
    /\ srvPc \notin {"start", "done"}
    /\ ~interrupted
    /\ ~quitClosed
    /\ interrupted' = TRUE
    /\ quitBuf' = 1
    /\ UNCHANGED <<storeVars, srvPc, backlog, quitClosed, tasksClosed, crashed,
                   perPc, listenerVars, runnerVars, catalogVars, keyVars>>

\* ---- Serve
\* quit := make(chan os.Signal, 1); signal.Notify(quit, os.Interrupt)
ServeNotify ==
    /\ Alive
    /\ srvPc = "start"
    /\ srvPc' = "setName"
    /\ UNCHANGED <<storeVars, backlog, quitBuf, interrupted, quitClosed,
                   tasksClosed, crashed, perPc, listenerVars, runnerVars,
                   catalogVars, keyVars>>

\* m.setName(): the error is dropped.
ServeSetName ==
    /\ Alive
    /\ srvPc = "setName"
    /\ \E ok \in BOOLEAN : storeFailed' = (storeFailed \/ ~ok)
    /\ srvPc' = "goPeriodic"
    /\ UNCHANGED <<queue, events, writes, written, logged, backlog, quitBuf,
                   interrupted, quitClosed, tasksClosed, crashed, perPc,
                   listenerVars, runnerVars, catalogVars, keyVars>>

\* go m.periodicRunner(ticker)
ServeGoPeriodic ==
    /\ Alive
    /\ srvPc = "goPeriodic"
    /\ perPc' = "on"
    /\ srvPc' = "checkQueue"
    /\ UNCHANGED <<storeVars, backlog, quitBuf, interrupted, quitClosed,
                   tasksClosed, crashed, listenerVars, runnerVars, catalogVars,
                   keyVars>>

\* Where Serve goes on once checkQueue has returned.
AfterCheckQueue == "goListener"

\* checkQueue: the Get of the backlog. It returns when the Get fails or the
\* backlog is empty.
CheckQueueGet ==
    /\ Alive
    /\ srvPc = "checkQueue"
    /\ \E ok \in BOOLEAN :
         /\ storeFailed' = (storeFailed \/ ~ok)
         /\ IF ok /\ Len(QueueNodes) > 0
            THEN backlog' = QueueNodes /\ srvPc' = "cqNode"
            ELSE backlog' = <<>> /\ srvPc' = AfterCheckQueue
    /\ UNCHANGED <<queue, events, writes, written, logged, quitBuf,
                   interrupted, quitClosed, tasksClosed, crashed, perPc,
                   listenerVars, runnerVars, catalogVars, keyVars>>

\* checkQueue: one node of the backlog is unmarshalled and deleted; a node
\* that does not unmarshal is skipped, a task goes to the send.
CheckQueueNode ==
    /\ Alive
    /\ srvPc = "cqNode"
    /\ IF backlog = <<>>
       THEN /\ srvPc' = AfterCheckQueue
            /\ UNCHANGED <<backlog, queue, events, storeFailed>>
       ELSE /\ \E ok \in BOOLEAN : StoreDelete(Head(backlog).key, ok)
            /\ IF EtcdUnmarshalTask(Head(backlog)).err
               THEN backlog' = Tail(backlog) /\ srvPc' = "cqNode"
               ELSE /\ backlog' = <<[Head(backlog) EXCEPT !.deleted = TRUE]>>
                                   \o Tail(backlog)
                    /\ srvPc' = "cqSend"
    /\ UNCHANGED <<writes, written, logged, quitBuf, interrupted, quitClosed,
                   tasksClosed, crashed, perPc, listenerVars, runnerVars,
                   catalogVars, keyVars>>

\* go m.TaskListener(tasks)
ServeGoListener ==
    /\ Alive
    /\ srvPc = "goListener"
    /\ lisPc' = "init"
    /\ srvPc' = "goRunner"
    /\ UNCHANGED <<storeVars, backlog, quitBuf, interrupted, quitClosed,
                   tasksClosed, crashed, perPc, lisNode, runnerVars,
                   catalogVars, keyVars>>

\* go m.TaskRunner(tasks)
ServeGoRunner ==
    /\ Alive
    /\ srvPc = "goRunner"
    /\ trPc' = "recv"
    /\ srvPc' = "waitQuit"
    /\ UNCHANGED <<storeVars, backlog, quitBuf, interrupted, quitClosed,
                   tasksClosed, crashed, perPc, listenerVars, trTask, workers,
                   received, started, catalogVars, keyVars>>

\* s := <-quit, then close(quit); close(tasks): once the signal is taken
\* Serve runs to its return without waiting for anything.
ServeQuit ==
    /\ Alive
    /\ srvPc = "waitQuit"
    /\ quitBuf = 1
    /\ quitBuf' = 0
    /\ quitClosed' = TRUE
    /\ tasksClosed' = TRUE
    /\ srvPc' = "return"
    /\ UNCHANGED <<storeVars, backlog, interrupted, crashed, perPc,
                   listenerVars, runnerVars, catalogVars, keyVars>>

\* return nil
ServeReturn ==
    /\ Alive
    /\ srvPc = "return"
    /\ srvPc' = "done"
    /\ UNCHANGED <<storeVars, backlog, quitBuf, interrupted, quitClosed,
                   tasksClosed, crashed, perPc, listenerVars, runnerVars,
                   catalogVars, keyVars>>

\* ---- periodicRunner
\* One round of the loop: SetClassifier for every registered classifier,
\* setLastseen, and the wait for the next tick. The errors are logged, so a
\* round leaves a trace only when one of its requests fails.
PeriodicRound ==
    /\ Alive
    /\ perPc = "on"
    /\ ~storeFailed
    /\ storeFailed' = TRUE
    /\ UNCHANGED <<queue, events, writes, written, logged, serveVars, perPc,
                   listenerVars, runnerVars, catalogVars, keyVars>>

\* ---- TaskListener
\* The watcher is made and the first Next is issued: without an index it
\* waits for the first event after the current one.
ListenerWatch ==
    /\ Alive
    /\ lisPc = "init"
    /\ lisPc' = "next"
    /\ UNCHANGED <<storeVars, serveVars, perPc, lisNode, runnerVars,
                   catalogVars, keyVars>>

\* watcher.Next fails: the error is logged and Next is called again.
ListenerNextError ==
    /\ Alive
    /\ lisPc = "next"
    /\ ~storeFailed
    /\ storeFailed' = TRUE
    /\ UNCHANGED <<queue, events, writes, written, logged, serveVars, perPc,
                   listenerVars, runnerVars, catalogVars, keyVars>>

\* watcher.Next returns the next event: a delete event is ignored.
ListenerNext ==
    /\ Alive
    /\ lisPc = "next"
    /\ events # <<>>
    /\ LET ev == Head(events) IN
       IF ev.action = "delete"
       THEN UNCHANGED <<lisPc, lisNode>>
       ELSE /\ lisNode' = Node(ev.key, ev.value)
            /\ lisPc' = "delete"
    /\ events' = Tail(events)
    /\ UNCHANGED <<queue, writes, written, logged, storeFailed, serveVars,
                   perPc, runnerVars, catalogVars, keyVars>>

\* The node is unmarshalled and deleted; a node that does not unmarshal is
\* dropped and the iteration ends, a task goes to the send.
ListenerDelete ==
    /\ Alive
    /\ lisPc = "delete"
    /\ \E ok \in BOOLEAN : StoreDelete(lisNode.key, ok)
    /\ IF EtcdUnmarshalTask(lisNode).err
       THEN lisPc' = "next" /\ lisNode' = NoNode
       ELSE /\ lisPc' = "send"
            /\ lisNode' = [lisNode EXCEPT !.deleted = TRUE]
    /\ UNCHANGED <<writes, written, logged, serveVars, perPc, runnerVars,
                   catalogVars, keyVars>>

\* c <- task on the closed channel panics.
ListenerSendClosed ==
    /\ Alive
    /\ lisPc = "send"
    /\ tasksClosed
    /\ crashed' = TRUE
    /\ UNCHANGED <<storeVars, srvPc, backlog, quitBuf, interrupted, quitClosed,
                   tasksClosed, perPc, listenerVars, runnerVars, catalogVars,
                   keyVars>>

\* ---- TaskRunner
\* What a goroutine blocked in "c <- task" offers: the task of its node.
Send(who, node) ==
    [who |-> who, t |-> EtcdUnmarshalTask(node), deleted |-> node.deleted]

\* A variant of Senders in which the listener sends a task before it
\* deletes the entry.
SendersBeforeDelete ==
    (IF srvPc = "cqSend" THEN {Send("checkQueue", Head(backlog))} ELSE {})
    \cup
    (IF lisPc = "send" \/ (lisPc = "delete" /\ ~EtcdUnmarshalTask(lisNode).err)
     THEN {Send("listener", lisNode)} ELSE {})

\* The goroutines blocked in "c <- task", with the task each one sends.
Senders ==
    (IF srvPc = "cqSend" THEN {Send("checkQueue", Head(backlog))} ELSE {})
    \cup
    (IF lisPc = "send" THEN {Send("listener", lisNode)} ELSE {})

\* A variant of Dispatched that starts a goroutine for every task.
DispatchedAlways(conc) == TRUE

\* A variant of Dispatched that runs every task inline.
DispatchedNever(conc) == FALSE

\* "if task.IsConcurrent": TRUE when the runner hands the task to a new
\* goroutine, FALSE when it runs processTask itself.
Dispatched(conc) == conc

\* task := <-c meets a "c <- task" (the channel has no buffer). The runner
\* starts a goroutine for a concurrent task and runs any other task inline.
Receive ==
    /\ Alive
    /\ trPc = "recv"
    /\ ~tasksClosed
    /\ \E snd \in Senders :
         LET job == Len(received) + 1 IN
         /\ received' = Append(received,
                [id |-> snd.t.id, who |-> snd.who, deleted |-> snd.deleted])
         /\ IF Dispatched(snd.t.conc)
            THEN /\ workers' = workers \cup
                        {[t |-> Task(snd.t.id, job, snd.t.conc),
                          phase |-> "spawned"]}
                 /\ UNCHANGED <<trPc, trTask, started>>
            ELSE /\ trTask' = Task(snd.t.id, job, snd.t.conc)
                 /\ trPc' = "run"
                 /\ started' = Append(started, snd.t.id)
                 /\ UNCHANGED workers
         /\ IF snd.who = "checkQueue"
            THEN /\ backlog' = Tail(backlog)
                 /\ srvPc' = "cqNode"
                 /\ UNCHANGED <<lisPc, lisNode>>
            ELSE /\ lisPc' = "next"
                 /\ lisNode' = NoNode
                 /\ UNCHANGED <<backlog, srvPc>>
    /\ UNCHANGED <<storeVars, quitBuf, interrupted, quitClosed, tasksClosed,
                   crashed, perPc, catalogVars, keyVars>>

\* task := <-c on the closed channel yields nil, and task.TimeReceived
\* panics.
RunnerRecvClosed ==
    /\ Alive
    /\ trPc = "recv"
    /\ tasksClosed
    /\ crashed' = TRUE
    /\ UNCHANGED <<storeVars, srvPc, backlog, quitBuf, interrupted, quitClosed,
                   tasksClosed, perPc, listenerVars, runnerVars, catalogVars,
                   keyVars>>

\* A variant of Processed that leaves Error empty when the command failed.
ProcessedDropsError(t, failed) ==
    [t EXCEPT !.exit = IF failed THEN "failed" ELSE "ok",
              !.processed = TRUE, !.result = TRUE]

\* processTask once cmd.Run() has returned: TimeProcessed and Result are
\* set, and Error when the command failed.
Processed(t, failed) ==
    [t EXCEPT !.exit = IF failed THEN "failed" ELSE "ok",
              !.processed = TRUE, !.result = TRUE, !.err = failed]

\* processTask inline: cmd.Run() returns, with or without an error.
RunnerFinish ==
    /\ Alive
    /\ trPc = "run"
    /\ \E failed \in BOOLEAN : trTask' = Processed(trTask, failed)
    /\ trPc' = "save"
    /\ UNCHANGED <<storeVars, serveVars, perPc, listenerVars, workers,
                   received, started, catalogVars, keyVars>>

\* saveTask(t): the Set of log/<TaskID>.
SaveTask(t, ok) ==
    /\ storeFailed' = (storeFailed \/ ~ok)
    /\ logged' = IF ok THEN Append(logged, t) ELSE logged

\* processTask inline: the deferred saveTask, and back to the receive.
RunnerSave ==
    /\ Alive
    /\ trPc = "save"
    /\ \E ok \in BOOLEAN : SaveTask(trTask, ok)
    /\ trPc' = "recv"
    /\ trTask' = NoTask
    /\ UNCHANGED <<queue, events, writes, written, serveVars, perPc,
                   listenerVars, workers, received, started, catalogVars,
                   keyVars>>

\* ---- the goroutine of a concurrent task
WorkerStart(j) ==
    /\ Alive
    /\ j.phase = "spawned"
    /\ workers' = (workers \ {j}) \cup {[j EXCEPT !.phase = "run"]}
    /\ started' = Append(started, j.t.id)
    /\ UNCHANGED <<storeVars, serveVars, perPc, listenerVars, trPc, trTask,
                   received, catalogVars, keyVars>>

WorkerFinish(j) ==
    /\ Alive
    /\ j.phase = "run"
    /\ \E failed \in BOOLEAN :
         workers' = (workers \ {j})
                    \cup {[t |-> Processed(j.t, failed), phase |-> "save"]}
    /\ UNCHANGED <<storeVars, serveVars, perPc, listenerVars, trPc, trTask,
                   received, started, catalogVars, keyVars>>

WorkerSave(j) ==
    /\ Alive
    /\ j.phase = "save"
    /\ \E ok \in BOOLEAN : SaveTask(j.t, ok)
    /\ workers' = workers \ {j}
    /\ UNCHANGED <<queue, events, writes, written, serveVars, perPc,
                   listenerVars, trPc, trTask, received, started, catalogVars,
                   keyVars>>

Worker == \E j \in workers : WorkerStart(j) \/ WorkerFinish(j) \/ WorkerSave(j)

\* ---- the minion
\* A minion made by NewEtcdMinion, Serve about to be called, with whatever
\* the operator has left in its queue.
Init ==
    /\ queue \in [TaskKeys -> Values \cup {NoValue}]
    /\ events = <<>>
    /\ writes = 0
    /\ written = {}
    /\ logged = <<>>
    /\ storeFailed = FALSE
    /\ srvPc = "start"
    /\ backlog = <<>>
    /\ quitBuf = 0
    /\ interrupted = FALSE
    /\ quitClosed = FALSE
    /\ tasksClosed = FALSE
    /\ crashed = FALSE
    /\ perPc = "off"
    /\ lisPc = "off"
    /\ lisNode = NoNode
    /\ trPc = "off"
    /\ trTask = NoTask
    /\ workers = {}
    /\ received = <<>>
    /\ started = <<>>
    /\ cModules = <<>>
    /\ cResources = <<>>
    /\ dryRun = FALSE
    /\ RunIdle
    /\ LoadIdle
    /\ KeysIdle

ServeStep ==
    \/ ServeNotify
    \/ ServeSetName
    \/ ServeGoPeriodic
    \/ CheckQueueGet
    \/ CheckQueueNode
    \/ ServeGoListener
    \/ ServeGoRunner
    \/ ServeQuit
    \/ ServeReturn

Listener ==
    \/ ListenerWatch
    \/ ListenerNextError
    \/ ListenerNext
    \/ ListenerDelete
    \/ ListenerSendClosed

Runner == Receive \/ RunnerRecvClosed \/ RunnerFinish \/ RunnerSave

Next ==
    \/ Submit
    \/ Interrupt
    \/ ServeStep
    \/ PeriodicRound
    \/ Listener
    \/ Runner
    \/ Worker

Spec == Init /\ [][Next]_vars

\* Every goroutine that can take a step eventually takes one, and every
\* command and every store request returns. Nothing is assumed of the
\* operator, of the interrupt or of the ticker.
Fairness ==
    /\ WF_vars(ServeStep)
    /\ WF_vars(ListenerWatch)
    /\ WF_vars(ListenerNext)
    /\ WF_vars(ListenerDelete)
    /\ WF_vars(ListenerSendClosed)
    /\ WF_vars(Runner)
    /\ WF_vars(Worker)

FairSpec == Spec /\ Fairness

\* --------------------------------------------------- properties of the minion
\* The task with id k has been run and its result written under log/.
Logged(k) == \E i \in 1..Len(logged) : logged[i].id = k
Started(k) == \E i \in 1..Len(started) : started[i] = k
StartedBefore(j, k) ==
    \E a, b \in 1..Len(started) : a < b /\ started[a] = j /\ started[b] = k

\* Serve is called with well-formed tasks under queue/1 and queue/2.
BacklogOfTwo ==
    /\ srvPc = "start"
    /\ queue[1] \in {"serial", "concurrent"}
    /\ queue[2] \in {"serial", "concurrent"}

\* C1: when Serve is called with two well-formed tasks in the queue, and
\* there is no interrupt, no failed store operation (and no further write
\* of the operator), both entries are eventually deleted, task 1 and then
\* task 2 are executed, and both are logged.
C1_BacklogDrain ==
    BacklogOfTwo ~>
        \/ /\ queue[1] = NoValue /\ queue[2] = NoValue
           /\ StartedBefore(1, 2)
           /\ Logged(1) /\ Logged(2)
        \/ interrupted \/ storeFailed \/ writes > 0

\* C2: a well-formed task written to the queue after Serve was called is
\* eventually deleted from the queue, executed and logged, unless the minion
\* is interrupted or a store operation fails.
C2_AtLeastOnce ==
    \A k \in TaskKeys :
        (k \in written) ~>
            \/ (queue[k] = NoValue /\ Started(k) /\ Logged(k))
            \/ interrupted \/ storeFailed

\* C3: after an interrupt, delivered at whatever step Serve is in, Serve
\* eventually closes the quit and task channels and returns.
C3_ShutdownLiveness ==
    interrupted ~> (srvPc = "done" /\ quitClosed /\ tasksClosed)

\* The tasks the runner or a goroutine of a concurrent task is processing:
\* received, and the write of its log entry not yet attempted.
InProgress ==
    (IF trPc \in {"run", "save"} THEN {trTask} ELSE {})
    \cup {j.t : j \in workers}

\* The tasks whose command is running.
Executing ==
    (IF trPc = "run" THEN {trTask} ELSE {})
    \cup {j.t : j \in {x \in workers : x.phase = "run"}}

\* C12: at most one non-concurrent task is being processed at any time, and
\* while it is (its command running or its log write still to come) the
\* runner has taken no later task from the channel; so the non-concurrent
\* tasks are executed, and logged, in the order the channel delivered them.
C12_SerialFIFO ==
    /\ Cardinality({t \in InProgress : ~t.conc}) <= 1
    /\ Cardinality({t \in Executing : ~t.conc}) <= 1
    /\ \A t \in InProgress : ~t.conc => t.job = Len(received)
    /\ \A a, b \in 1..Len(logged) :
          (a < b /\ ~logged[a].conc /\ ~logged[b].conc)
              => logged[a].job < logged[b].job

\* Two non-concurrent tasks have been executed one after the other, and the
\* second is running after the first was logged.
C12_Witness ==
    /\ trPc = "run" /\ ~trTask.conc /\ trTask.job = 2
    /\ \E i \in 1..Len(logged) : ~logged[i].conc /\ logged[i].job = 1

\* C13: a concurrent task never occupies the runner: while it is unfinished
\* the runner is at its receive or is processing another, later task, so the
\* next task of the channel can start whether or not the concurrent one ends.
C13_ConcurrentDoesNotBlock ==
    \A t \in InProgress :
        t.conc => /\ t \in {j.t : j \in workers}
                  /\ ~(trPc \in {"run", "save"} /\ trTask.job = t.job)

\* The command of a concurrent task is still running, and a task received
\* after it has been started, has finished and has been logged.
C13_Witness ==
    \E j \in workers :
        /\ j.t.conc /\ j.phase = "run"
        /\ \E i \in 1..Len(logged) : logged[i].job > j.t.job

\* C14: every task written to the log was written after its command had
\* ended and when nobody was processing it any more; it carries
\* TimeProcessed and the captured output, and its Error is set exactly when
\* the command failed. Every received task that is no longer being
\* processed has been written once, unless a store request failed.
C14_ResultLogging ==
    /\ \A i \in 1..Len(logged) :
          /\ logged[i].exit # "none"
          /\ logged[i].processed /\ logged[i].result
          /\ logged[i].err <=> (logged[i].exit = "failed")
          /\ \A t \in InProgress : t.job # logged[i].job
          /\ \A k \in 1..Len(logged) : logged[k].job = logged[i].job => k = i
    /\ \A n \in 1..Len(received) :
          \/ \E t \in InProgress : t.job = n
          \/ \E i \in 1..Len(logged) : logged[i].job = n
          \/ storeFailed

\* A task whose command failed and a task whose command succeeded are both
\* in the log.
C14_Witness ==
    \E a, b \in 1..Len(logged) :
        /\ logged[a].exit = "failed" /\ logged[a].err
        /\ logged[b].exit = "ok" /\ ~logged[b].err

\* Number of elements of sequence s that satisfy Test.
CountOf(s, Test(_)) == Cardinality({i \in 1..Len(s) : Test(s[i])})

\* C20: every task the runner has taken from the channel had the Delete of
\* its queue entry issued before it was sent; no command is started that was
\* not taken from the channel; every task the listener has published, holds
\* or has still to read answers one write of the operator; the backlog drain
\* publishes no key twice.
C20_DeleteBeforeExecute ==
    /\ \A i \in 1..Len(received) : received[i].deleted
    /\ Len(started) <= Len(received)
    /\ \A k \in TaskKeys :
          CountOf(started, LAMBDA x : x = k)
              <= CountOf(received, LAMBDA r : r.id = k)
    /\ CountOf(received, LAMBDA r : r.who = "listener")
          + CountOf(events, LAMBDA e : e.action = "set")
          + (IF lisPc \in {"delete", "send"} THEN 1 ELSE 0)
              <= writes
    /\ \A i, j \in 1..Len(received) :
          (i < j /\ received[i].who = "checkQueue"
                 /\ received[j].who = "checkQueue")
              => received[i].id # received[j].id

\* A task written while the listener was watching has been deleted from the
\* queue, published once and started once.
C20_Witness ==
    \E k \in TaskKeys :
        /\ queue[k] = NoValue
        /\ CountOf(received, LAMBDA r : r.id = k /\ r.who = "listener"
                                        /\ r.deleted) = 1
        /\ CountOf(started, LAMBDA x : x = k) = 1

\* The Delete of key k has been issued in this step: the key is gone, or the
\* request failed.
DeleteIssued(k) == queue'[k] = NoValue \/ storeFailed'

\* The backlog drain takes its step on a head entry that does not unmarshal:
\* the entry is deleted, nothing is published, and the drain is at the next
\* entry.
DrainDropsMalformed ==
    (/\ srvPc = "cqNode" /\ backlog # <<>>
     /\ Head(backlog).value = Malformed
     /\ <<srvPc, backlog>>' # <<srvPc, backlog>>)
    => /\ DeleteIssued(Head(backlog).key)
       /\ received' = received
       /\ srvPc' = "cqNode"
       /\ backlog' = Tail(backlog)

\* The listener takes its step on the node of a set event that does not
\* unmarshal: the entry is deleted, nothing is published, and the listener is
\* back at watcher.Next.
ListenerDropsMalformed ==
    (/\ lisPc = "delete" /\ lisNode.value = Malformed
     /\ lisPc' # lisPc)
    => /\ DeleteIssued(lisNode.key)
       /\ received' = received
       /\ lisPc' = "next"

\* The listener reads a delete event: no store request, no publication, and
\* the listener is back at watcher.Next.
ListenerIgnoresDelete ==
    (/\ lisPc = "next" /\ events # <<>>
     /\ Head(events).action = "delete"
     /\ events' = Tail(events))
    => /\ UNCHANGED <<queue, storeFailed, received>>
       /\ lisPc' = "next"

\* No goroutine is blocked in "c <- task" with an entry that does not
\* unmarshal.
NoMalformedSender ==
    /\ srvPc = "cqSend" => Head(backlog).value \in {"serial", "concurrent"}
    /\ lisPc = "send" => lisNode.value \in {"serial", "concurrent"}

\* C21: a queue entry that does not unmarshal is deleted and is never
\* published to the task channel, in the backlog drain and in the listener,
\* and the drain or the listener goes on with the next entry or event; a
\* delete event causes no store request and no publication.
C21_MalformedEntries ==
    /\ []NoMalformedSender
    /\ [][/\ DrainDropsMalformed
          /\ ListenerDropsMalformed
          /\ ListenerIgnoresDelete]_vars

\* The listener has deleted the malformed entry queue/1 without publishing
\* it, has read on, and now holds the task of queue/2 for the runner.
C21_Witness ==
    /\ lisPc = "send" /\ lisNode.key = 2
    /\ received = <<>>
    /\ ~storeFailed
    /\ writes = 2
    /\ queue = [k \in TaskKeys |-> NoValue]
    /\ \E i \in 1..Len(events) : events[i] = Event("delete", 1, NoValue)

\* C22: once Serve has closed the task channel, no goroutine panics on it:
\* the listener does not send a task on the closed channel, and the runner
\* does not take the nil task of the closed channel and write to it.
C22_ShutdownChannelSafety ==
    tasksClosed => ~crashed

\* ================================================================ key space
\* Keys are paths: sequences of path elements. Two minions, the classifier
\* keys of the registry and the task ids an operator uses.
MinionIDs == {"id1", "id2"}
ClassifierKeys == {"fqdn", "os"}
TaskIDs == {"t1", "t2"}

\* Number of requests the minions issue in a run.
MaxRequests == 4

\* filepath.Clean on the elements of a path: "." is dropped and ".." takes
\* the element before it away.
RECURSIVE Clean(_, _)
Clean(done, rest) ==
    IF rest = <<>> THEN done
    ELSE LET e == Head(rest) IN
         IF e = "." THEN Clean(done, Tail(rest))
         ELSE IF e = ".."
              THEN Clean(IF done = <<>> THEN <<>>
                         ELSE SubSeq(done, 1, Len(done) - 1), Tail(rest))
         ELSE Clean(Append(done, e), Tail(rest))

\* filepath.Join(dir, elem)
Join(dir, elem) == Clean(<<>>, Append(dir, elem))

etcdMinionSpace == <<"gru", "minion">>

\* A variant of RootDir that leaves the id of the minion out.
RootDirShared(id) == etcdMinionSpace

\* The directories NewEtcdMinion derives from the id of the minion.
RootDir(id) == Join(etcdMinionSpace, id)
QueueDir(id) == Join(RootDir(id), "queue")
ClassifierDir(id) == Join(RootDir(id), "classifier")
LogDir(id) == Join(RootDir(id), "log")

Request(m, op, key) == [minion |-> m, op |-> op, key |-> key]

\* The minion m issues a request.
Issue(m, op, key) ==
    /\ Cardinality(requests) < MaxRequests
    /\ requests' = requests \cup {Request(m, op, key)}

\* The operator puts a task under the queue directory of a minion.
KeyOperatorSet ==
    /\ \E m \in MinionIDs, t \in TaskIDs :
         keyspace' = keyspace \cup {Join(Join(etcdMinionSpace, m), "queue")
                                    \o <<t>>}
    /\ UNCHANGED <<requests, catalogVars, minionVars>>

\* setName and setLastseen
KeySetName ==
    /\ \E m \in MinionIDs : Issue(m, "set", Join(RootDir(m), "name"))
    /\ UNCHANGED <<keyspace, catalogVars, minionVars>>

KeySetLastseen ==
    /\ \E m \in MinionIDs : Issue(m, "set", Join(RootDir(m), "lastseen"))
    /\ UNCHANGED <<keyspace, catalogVars, minionVars>>

\* SetClassifier: klassifierKey := filepath.Join(m.classifierDir, key)
KeySetClassifier ==
    /\ \E m \in MinionIDs, c \in ClassifierKeys :
         Issue(m, "set", Join(ClassifierDir(m), c))
    /\ UNCHANGED <<keyspace, catalogVars, minionVars>>

\* The prefix relation on paths.
Under(dir, key) ==
    Len(key) > Len(dir) /\ SubSeq(key, 1, Len(dir)) = dir

\* checkQueue and TaskListener: the Delete of node.Key, for a node that the
\* Get or the watch of the minion's queue directory has returned.
KeyDeleteQueued ==
    /\ \E m \in MinionIDs :
         \E k \in {x \in keyspace : Under(QueueDir(m), x)} :
            /\ Issue(m, "delete", k)
            /\ keyspace' = keyspace \ {k}
    /\ UNCHANGED <<catalogVars, minionVars>>

\* saveTask: taskKey := filepath.Join(m.logDir, t.TaskID.String())
KeySaveTask ==
    /\ \E m \in MinionIDs, t \in TaskIDs : Issue(m, "set", Join(LogDir(m), t))
    /\ UNCHANGED <<keyspace, catalogVars, minionVars>>

KeysInit ==
    /\ KeysIdle
    /\ cModules = <<>>
    /\ cResources = <<>>
    /\ dryRun = FALSE
    /\ RunIdle
    /\ LoadIdle
    /\ MinionIdle

KeysNext ==
    \/ KeyOperatorSet
    \/ KeySetName
    \/ KeySetLastseen
    \/ KeySetClassifier
    \/ KeyDeleteQueued
    \/ KeySaveTask

SpecKeys == KeysInit /\ [][KeysNext]_vars

\* C19: every key a minion sets or deletes lies under /gru/minion/<id>/
\* with its own id, so no key is set or deleted by two different minions.
C19_SubtreeIsolation ==
    /\ \A r \in requests : Under(<<"gru", "minion", r.minion>>, r.key)
    /\ \A r1, r2 \in requests : r1.minion # r2.minion => r1.key # r2.key

\* Both minions have set their name and deleted the task t1 of their queue.
C19_Witness ==
    \A m \in MinionIDs :
        /\ Request(m, "set", <<"gru", "minion", m, "name">>) \in requests
        /\ Request(m, "delete", <<"gru", "minion", m, "queue", "t1">>)
               \in requests

====
